---- MODULE Spec2Model ----
(***************************************************************************)
(* Model of trackma/tracker/pyinotify.py: the pyinotify tracker, which     *)
(* follows the one media file a player process holds open, correlating     *)
(* inotify events with the descriptor tables found under /proc.            *)
(***************************************************************************)
EXTENDS Integers, Sequences, FiniteSets, TLC

VARIABLES open_file, procs, last, retry, closer, rt, loop

vars == <<open_file, procs, last, retry, closer, rt, loop>>

(***************************************************************************)
(* Bounds and input domains.                                               *)
(***************************************************************************)
\* Number of descriptors that are open at once in the whole process table.
MaxOpen == 2

\* The descriptor numbers a process hands out, lowest free one first.
FdNumbers == 0..1

\* Python's None.  It is falsy, as the empty string is, and only its
\* truthiness and its (in)equality with non-empty strings are ever used.
None == <<>>

Truthy(x) == x # None

\* The null byte separating the fields of /proc/<pid>/cmdline.
NUL == "\\x00"

\* Process ids of the processes alive at the start, in os.listdir order.
Pids == <<41, 42>>

\* Command lines (byte strings, as sequences of pieces): a player with an
\* argument, and a shell whose argument names the player.
Cmdlines == { <<"/usr/bin/", "mpv", NUL, "--fs">>, <<"sh", NUL, "mpv">> }

\* self.process_name: the configured player pattern.
process_name == <<"mpv">>

\* Watched directories (event.path) and file names (event.name).
Dirs == { <<"/", "media">> }

Names == { <<"a.mkv">>, <<"b.mkv">> }

\* Results the show-resolution collaborator may give: (state, show_tuple).
ShowResults ==
    { <<<<"TRACKER_NOVIDEO">>, None>>, <<<<"TRACKER_PLAYING">>, <<"show">>>> }

(***************************************************************************)
(* String helpers, computed as Python computes them.                       *)
(***************************************************************************)
Digits == <<"0", "1", "2", "3", "4", "5", "6", "7", "8", "9">>

\* "%s" % n for a non-negative integer: its decimal digits.
RECURSIVE Str(_)
Str(n) ==
    IF n < 10 THEN <<Digits[n + 1]>>
    ELSE Str(n \div 10) \o <<Digits[(n % 10) + 1]>>

\* str.isdigit
isdigit(s) ==
    /\ Len(s) > 0
    /\ \A i \in 1..Len(s) : \E d \in 1..Len(Digits) : Digits[d] = s[i]

\* os.path.join(path, name)
join(path, name) ==
    IF name # <<>> /\ name[1] = "/" THEN name
    ELSE IF path = <<>> \/ path[Len(path)] = "/" THEN path \o name
    ELSE path \o <<"/">> \o name

\* bytes.partition(sep)[0]: what precedes the first separator.
partition(s, sep) ==
    IF \E i \in 1..Len(s) : s[i] = sep
    THEN LET first == CHOOSE i \in 1..Len(s) :
                          /\ s[i] = sep
                          /\ \A j \in 1..(i - 1) : s[j] # sep
         IN SubSeq(s, 1, first - 1)
    ELSE s

\* re.search of a literal pattern: the pattern occurs somewhere in s.
search(pat, s) ==
    \E i \in 0..(Len(s) - Len(pat)) : \A j \in 1..Len(pat) : s[i + j] = pat[j]

\* self.re_players = re.compile(self.process_name.encode('utf-8'))
re_players == process_name

Files == { join(d, n) : d \in Dirs, n \in Names }

(***************************************************************************)
(* The process table (procfs).  An entry is a live process: its pid, its   *)
(* command line and its descriptor table (None for a free descriptor).     *)
(***************************************************************************)
FreeFds == [k \in FdNumbers |-> None]

SelfName == <<"s", "e", "l", "f">>

\* os.listdir("/proc/"): a non-numeric entry, then the processes.
listdir_proc(table) == <<SelfName>> \o [i \in 1..Len(table) |-> Str(table[i].pid)]

\* Access failures a scan can meet on one process: none, its fd directory
\* cannot be listed, the link of descriptor fd vanished after the listing,
\* or its command line cannot be opened.
NoFault == [kind |-> "none", fd |-> -1]

Faults ==
    { NoFault, [kind |-> "listdir", fd |-> -1], [kind |-> "cmdline", fd |-> -1] }
    \cup { [kind |-> "readlink", fd |-> k] : k \in FdNumbers }

NoFaults(table) == [i \in 1..Len(table) |-> NoFault]

OSError == [status |-> "oserror", fd |-> None]

\* A slip that searches the whole command line, arguments included.
is_player_argv(cmdline) == search(re_players, cmdline)

\* Lines 55-59: the pattern is searched in what precedes the first null.
is_player(cmdline) == search(re_players, partition(cmdline, NUL))

\* Lines 49-62: the loop over one process's descriptors.
RECURSIVE scan_fds(_, _, _, _)
scan_fds(entry, fault, filename, k) ==
    IF k \notin DOMAIN entry.fds THEN [status |-> "none", fd |-> None]
    ELSE IF entry.fds[k] = None THEN scan_fds(entry, fault, filename, k + 1)
    ELSE IF fault.kind = "readlink" /\ fault.fd = k THEN OSError
    ELSE IF entry.fds[k] # filename THEN scan_fds(entry, fault, filename, k + 1)
    ELSE IF fault.kind = "cmdline" THEN OSError
    ELSE IF is_player(entry.cmdline)
         THEN [status |-> "found", fd |-> Str(k)]
    ELSE scan_fds(entry, fault, filename, k + 1)

\* Lines 47-64: one process, inside try ... except OSError: pass.
scan_proc(entry, fault, filename) ==
    IF fault.kind = "listdir" THEN OSError
    ELSE scan_fds(entry, fault, filename, 0)

\* A slip that goes on scanning after a match, so that the last match wins.
RECURSIVE scan_procs_last(_, _, _, _, _)
scan_procs_last(names, table, faults, filename, visited) ==
    IF names = <<>>
    THEN [pid |-> None, fd |-> None, visited |-> visited, raised |-> FALSE]
    ELSE LET p == Head(names)
         IN IF ~isdigit(p)
            THEN scan_procs_last(Tail(names), table, faults, filename, visited)
            ELSE LET i == CHOOSE j \in 1..Len(table) : Str(table[j].pid) = p
                     r == scan_proc(table[i], faults[i], filename)
                     rest == scan_procs_last(Tail(names), table, faults, filename,
                                             Append(visited, p))
                 IN IF r.status = "found" /\ ~Truthy(rest.pid)
                    THEN [pid |-> p, fd |-> r.fd, visited |-> rest.visited,
                          raised |-> FALSE]
                    ELSE rest

\* A slip that has no try ... except: an access failure ends the scan.
RECURSIVE scan_procs_abort(_, _, _, _, _)
scan_procs_abort(names, table, faults, filename, visited) ==
    IF names = <<>>
    THEN [pid |-> None, fd |-> None, visited |-> visited, raised |-> FALSE]
    ELSE LET p == Head(names)
         IN IF ~isdigit(p)
            THEN scan_procs_abort(Tail(names), table, faults, filename, visited)
            ELSE LET i == CHOOSE j \in 1..Len(table) : Str(table[j].pid) = p
                     r == scan_proc(table[i], faults[i], filename)
                 IN IF r.status = "found"
                    THEN [pid |-> p, fd |-> r.fd, visited |-> Append(visited, p),
                          raised |-> FALSE]
                    ELSE IF r.status = "oserror"
                    THEN [pid |-> None, fd |-> None,
                          visited |-> Append(visited, p), raised |-> TRUE]
                    ELSE scan_procs_abort(Tail(names), table, faults, filename,
                                          Append(visited, p))

\* Lines 45-67: the loop over the entries of /proc.
RECURSIVE scan_procs(_, _, _, _, _)
scan_procs(names, table, faults, filename, visited) ==
    IF names = <<>>
    THEN [pid |-> None, fd |-> None, visited |-> visited, raised |-> FALSE]
    ELSE LET p == Head(names)
         IN IF ~isdigit(p)
            THEN scan_procs(Tail(names), table, faults, filename, visited)
            ELSE LET i == CHOOSE j \in 1..Len(table) : Str(table[j].pid) = p
                     r == scan_proc(table[i], faults[i], filename)
                 IN IF r.status = "found"
                    THEN [pid |-> p, fd |-> r.fd, visited |-> Append(visited, p),
                          raised |-> FALSE]
                    ELSE scan_procs(Tail(names), table, faults, filename,
                                    Append(visited, p))

\* _is_being_played(filename): (pid, fd) of the player, or (None, None);
\* visited lists the processes whose descriptors the scan went through, and
\* raised tells whether an exception left the function.
is_being_played(filename, table, faults) ==
    scan_procs(listdir_proc(table), table, faults, filename, <<>>)

\* os.path.islink("/proc/%s/fd/%s" % (pid, fd))
islink(table, pid, fd) ==
    \E i \in 1..Len(table) :
        /\ Str(table[i].pid) = pid
        /\ \E k \in DOMAIN table[i].fds :
               Str(k) = fd /\ table[i].fds[k] # None

\* _closed_handle(pid, fd)
closed_handle(pid, fd, table) == ~islink(table, pid, fd)

(***************************************************************************)
(* The tracking state machine.  A handler returns the new open_file, the   *)
(* calls it made, in order, and the result of its scan (if any).           *)
(***************************************************************************)
Eff(op, args) == [op |-> op, args |-> args]

Idle == <<None, None, None>>

NoScan == [pid |-> None, fd |-> None, visited |-> <<>>, raised |-> FALSE]

\* A slip that records the file only after the show was resolved and sent.
open_untracked_late(path, name, of, table, faults, show) ==
    LET pathname == join(path, name)
        call == <<Eff("_proc_open", <<path, name>>)>>
        r == is_being_played(pathname, table, faults)
        look == <<Eff("_is_being_played", <<pathname>>)>>
    IN IF r.raised \/ ~Truthy(r.pid)
       THEN [open_file |-> of, effects |-> call \o look, scan |-> r]
       ELSE [open_file |-> <<pathname, r.pid, r.fd>>,
             effects |-> call \o look \o
                 << Eff("_emit_signal", <<"detected", path, name>>),
                    Eff("_get_playing_show", <<name>>),
                    Eff("update_show_if_needed", show),
                    Eff("open_file", <<pathname, r.pid, r.fd>>) >>,
             scan |-> r]

\* Lines 82-92 of _proc_open: no file is tracked, look for the player.
open_untracked(path, name, of, table, faults, show) ==
    LET pathname == join(path, name)
        call == <<Eff("_proc_open", <<path, name>>)>>
        r == is_being_played(pathname, table, faults)
        look == <<Eff("_is_being_played", <<pathname>>)>>
    IN IF r.raised
       THEN [open_file |-> of, effects |-> call \o look, scan |-> r]
       ELSE IF Truthy(r.pid)
       THEN [open_file |-> <<pathname, r.pid, r.fd>>,
             effects |-> call \o look \o
                 << Eff("_emit_signal", <<"detected", path, name>>),
                    Eff("open_file", <<pathname, r.pid, r.fd>>),
                    Eff("_get_playing_show", <<name>>),
                    Eff("update_show_if_needed", show) >>,
             scan |-> r]
       ELSE [open_file |-> of, effects |-> call \o look, scan |-> r]

\* A slip that lets a later open replace the tracked file.
proc_open_replace(path, name, of, table, faults, show) ==
    open_untracked(path, name, of, table, faults, show)

\* _proc_open(path, name)
proc_open(path, name, of, table, faults, show) ==
    IF Truthy(of[1])
    THEN [open_file |-> of, effects |-> <<Eff("_proc_open", <<path, name>>)>>,
          scan |-> NoScan]
    ELSE open_untracked(path, name, of, table, faults, show)

\* A slip that reports the closed file as removed from the library.
close_tracked_removed(path, name, of, table, faults, show) ==
    LET call == << Eff("_proc_close", <<path, name>>), Eff("sleep", <<>>) >>
        check == <<Eff("_closed_handle", <<of[2], of[3]>>)>>
    IN IF ~closed_handle(of[2], of[3], table)
       THEN [open_file |-> of, effects |-> call \o check, scan |-> NoScan]
       ELSE [open_file |-> Idle,
             effects |-> call \o check \o
                 << Eff("_emit_signal", <<"removed", path, name>>),
                    Eff("open_file", Idle),
                    Eff("_get_playing_show", <<None>>),
                    Eff("update_show_if_needed", show) >>,
             scan |-> NoScan]

\* Lines 105-113 of _proc_close: the tracked file was closed, check the handle.
close_tracked(path, name, of, table, faults, show) ==
    LET pid == of[2]
        fd == of[3]
        call == << Eff("_proc_close", <<path, name>>), Eff("sleep", <<>>) >>
        check == <<Eff("_closed_handle", <<pid, fd>>)>>
    IN IF ~closed_handle(pid, fd, table)
       THEN [open_file |-> of, effects |-> call \o check, scan |-> NoScan]
       ELSE [open_file |-> Idle,
             effects |-> call \o check \o
                 << Eff("_emit_signal", <<"detected", path, name>>),
                    Eff("open_file", Idle),
                    Eff("_get_playing_show", <<None>>),
                    Eff("update_show_if_needed", show) >>,
             scan |-> NoScan]

\* A slip that leaves out the comparison with the tracked path.
proc_close_nocompare(path, name, of, table, faults, show) ==
    close_tracked(path, name, of, table, faults, show)

\* A slip that compares the paths only when a file is tracked.
proc_close_idle_through(path, name, of, table, faults, show) ==
    IF Truthy(of[1]) /\ join(path, name) # of[1]
    THEN [open_file |-> of,
          effects |-> << Eff("_proc_close", <<path, name>>), Eff("sleep", <<>>) >>,
          scan |-> NoScan]
    ELSE close_tracked(path, name, of, table, faults, show)

\* _proc_close(path, name)
proc_close(path, name, of, table, faults, show) ==
    LET pathname == join(path, name)
        open_pathname == of[1]
    IN IF pathname # open_pathname
       THEN [open_file |-> of,
             effects |-> << Eff("_proc_close", <<path, name>>), Eff("sleep", <<>>) >>,
             scan |-> NoScan]
       ELSE close_tracked(path, name, of, table, faults, show)

\* The body of the handlers that only emit a signal.
emit_only(sig, ev, of) ==
    [open_file |-> of,
     effects |-> <<Eff("_emit_signal", <<sig, ev.path, ev.name>>)>>,
     scan |-> NoScan]

Discarded(of) == [open_file |-> of, effects |-> <<>>, scan |-> NoScan]

IN_ISDIR == "IN_ISDIR"

process_IN_OPEN(ev, of, table, faults, show) ==
    IF IN_ISDIR \notin ev.mask
    THEN proc_open(ev.path, ev.name, of, table, faults, show)
    ELSE Discarded(of)

process_IN_CLOSE_NOWRITE(ev, of, table, faults, show) ==
    IF IN_ISDIR \notin ev.mask
    THEN proc_close(ev.path, ev.name, of, table, faults, show)
    ELSE Discarded(of)

process_IN_CLOSE_WRITE(ev, of, table, faults, show) ==
    IF IN_ISDIR \notin ev.mask
    THEN proc_close(ev.path, ev.name, of, table, faults, show)
    ELSE Discarded(of)

\* A slip that leaves out the directory filter.
process_IN_CREATE_nofilter(ev, of, table, faults, show) ==
    emit_only("detected", ev, of)

process_IN_CREATE(ev, of, table, faults, show) ==
    IF IN_ISDIR \notin ev.mask THEN emit_only("detected", ev, of)
    ELSE Discarded(of)

process_IN_MOVED_TO(ev, of, table, faults, show) ==
    IF IN_ISDIR \notin ev.mask THEN emit_only("detected", ev, of)
    ELSE Discarded(of)

process_IN_MOVED_FROM(ev, of, table, faults, show) ==
    IF IN_ISDIR \notin ev.mask THEN emit_only("removed", ev, of)
    ELSE Discarded(of)

\* A slip that forgets the tracked file when that file is deleted.
process_IN_DELETE_forgets(ev, of, table, faults, show) ==
    IF IN_ISDIR \in ev.mask THEN Discarded(of)
    ELSE [open_file |-> IF join(ev.path, ev.name) = of[1] THEN Idle ELSE of,
          effects |-> <<Eff("_emit_signal", <<"removed", ev.path, ev.name>>)>>,
          scan |-> NoScan]

process_IN_DELETE(ev, of, table, faults, show) ==
    IF IN_ISDIR \notin ev.mask THEN emit_only("removed", ev, of)
    ELSE Discarded(of)

\* The event kinds of the watch mask (lines 118-124).
Kinds ==
    { "IN_OPEN", "IN_CLOSE_NOWRITE", "IN_CLOSE_WRITE", "IN_CREATE",
      "IN_MOVED_FROM", "IN_MOVED_TO", "IN_DELETE" }

KindOf(ev) == CHOOSE k \in Kinds : k \in ev.mask

\* EventHandler: pyinotify calls the method named after the event's kind.
EventHandler(ev, of, table, faults, show) ==
    CASE KindOf(ev) = "IN_OPEN" -> process_IN_OPEN(ev, of, table, faults, show)
      [] KindOf(ev) = "IN_CLOSE_NOWRITE" ->
             process_IN_CLOSE_NOWRITE(ev, of, table, faults, show)
      [] KindOf(ev) = "IN_CLOSE_WRITE" ->
             process_IN_CLOSE_WRITE(ev, of, table, faults, show)
      [] KindOf(ev) = "IN_CREATE" -> process_IN_CREATE(ev, of, table, faults, show)
      [] KindOf(ev) = "IN_MOVED_TO" ->
             process_IN_MOVED_TO(ev, of, table, faults, show)
      [] KindOf(ev) = "IN_MOVED_FROM" ->
             process_IN_MOVED_FROM(ev, of, table, faults, show)
      [] KindOf(ev) = "IN_DELETE" -> process_IN_DELETE(ev, of, table, faults, show)

\* Events the watch can deliver: files of either name, and a subdirectory.
DirNames == { <<"sub">> }

Events ==
    { [mask |-> {k}, path |-> d, name |-> n] : k \in Kinds, d \in Dirs, n \in Names }
    \cup { [mask |-> {k, IN_ISDIR}, path |-> d, name |-> n] :
               k \in Kinds, d \in Dirs, n \in DirNames }

NoEvent == [mask |-> {}, path |-> None, name |-> None]

NoLast ==
    [ev |-> NoEvent, pre |-> Idle, effects |-> <<>>, faults |-> <<>>,
     scan |-> NoScan, show |-> <<None, None>>, retried |-> FALSE,
     closer |-> NoEvent]

\* A handler has run and has not yet returned to the notifier.
Handled == last.ev.mask # {}

EffectOps(effects) == { effects[i].op : i \in 1..Len(effects) }

(***************************************************************************)
(* The runtime state the tracker inherits from TrackerBase (last_state,    *)
(* last_show_tuple, last_updated), which update_show_if_needed maintains.  *)
(***************************************************************************)
TRACKER_NOVIDEO == <<"TRACKER_NOVIDEO">>

InitRuntime ==
    [last_state |-> TRACKER_NOVIDEO, last_show_tuple |-> None, last_updated |-> FALSE]

\* update_show_if_needed(state, show_tuple): the pair becomes the last known
\* one; sent tells whether the collaborator now counts the list as updated.
update_show_if_needed(r, pair, sent) ==
    [last_state |-> pair[1], last_show_tuple |-> pair[2], last_updated |-> sent]

\* What last_updated can be after the pair is submitted: once an update was
\* sent for a pair it stays sent while the same pair is submitted again.
SentChoices(r, pair) ==
    IF pair = <<r.last_state, r.last_show_tuple>>
    THEN {r.last_updated, TRUE}
    ELSE BOOLEAN

(***************************************************************************)
(* The watch loop of observe: where it stands (pc), the active flag, the   *)
(* timeout of the next wait, the notifier and how often it was stopped,    *)
(* the events waiting in the inotify queue, those read and not yet         *)
(* dispatched, whether an exception is being propagated, and what the      *)
(* latest timeout branch did.                                              *)
(***************************************************************************)
NoNote == [effects |-> <<>>, pre_open |-> Idle, pre_rt |-> InitRuntime, fired |-> FALSE]

InitLoop ==
    [pc |-> "start", active |-> TRUE, timeout |-> None, notifier |-> "none",
     stops |-> 0, pending |-> 0, batch |-> 0, exc |-> FALSE, note |-> NoNote]

(***************************************************************************)
(* Actions.                                                                *)
(***************************************************************************)
Init ==
    /\ open_file = Idle
    /\ procs \in { [i \in 1..Len(Pids) |->
                       [pid |-> Pids[i], cmdline |-> c[i], fds |-> FreeFds]] :
                   c \in [1..Len(Pids) -> Cmdlines] }
    /\ last = NoLast
    /\ retry = FALSE
    /\ closer = NoEvent
    /\ rt = InitRuntime
    /\ loop = InitLoop

\* What the handler of ev does when the scan meets no access failure, used
\* to tell whether the handler scans /proc and whether it updates the show.
Default == <<<<"TRACKER_NOVIDEO">>, None>>

Scans(ev) ==
    "_is_being_played" \in
        EffectOps(EventHandler(ev, open_file, procs, NoFaults(procs), Default).effects)

Updates(ev, faults) ==
    "update_show_if_needed" \in
        EffectOps(EventHandler(ev, open_file, procs, faults, Default).effects)

\* The access failures a scan made for ev can meet, and the results the
\* show-resolution collaborator can give to the handler of ev.
FaultChoices(ev) ==
    IF Scans(ev) THEN [1..Len(procs) -> Faults] ELSE {NoFaults(procs)}

ShowChoices(ev, faults) == IF Updates(ev, faults) THEN ShowResults ELSE {Default}

\* The same when the collaborator sends nothing while a handler runs (its
\* wait time has not passed): only an update already sent is remembered.
SentLater(r, pair) ==
    {pair = <<r.last_state, r.last_show_tuple>> /\ r.last_updated}

\* What the update collaborator can answer to the handler of ev: under Spec
\* events are dispatched back to back, and the update is sent later.
SentFor(ev, faults, show) ==
    IF Updates(ev, faults) THEN SentLater(rt, show) ELSE {rt.last_updated}

\* One event is dispatched to its handler, which runs to its end.
Dispatch(ev, faults, show, sent) ==
    LET r == EventHandler(ev, open_file, procs, faults, show)
        ops == EffectOps(r.effects)
    IN /\ open_file' = r.open_file
       /\ last' = [ev |-> ev, pre |-> open_file, effects |-> r.effects,
                   faults |-> faults, scan |-> r.scan, show |-> show,
                   retried |-> retry, closer |-> closer]
       /\ retry' = IF r.open_file # open_file THEN FALSE
                   ELSE IF "_closed_handle" \in ops THEN TRUE
                   ELSE retry
       /\ closer' = IF r.open_file = open_file THEN closer
                    ELSE IF r.open_file = Idle THEN ev
                    ELSE NoEvent
       /\ rt' = IF "update_show_if_needed" \in ops
                THEN update_show_if_needed(rt, show, sent)
                ELSE rt
       /\ UNCHANGED procs

\* The handler returns to the notifier, which goes on to the next event.
Returned ==
    /\ Handled
    /\ last' = NoLast
    /\ UNCHANGED <<open_file, procs, retry, closer, rt, loop>>

TotalOpen(table) ==
    Cardinality({ <<i, k>> \in (1..Len(table)) \X FdNumbers :
                     table[i].fds[k] # None })

HasFree(fds) == \E k \in DOMAIN fds : fds[k] = None

LowestFree(fds) ==
    CHOOSE k \in DOMAIN fds : fds[k] = None /\ \A j \in DOMAIN fds : j < k => fds[j] # None

\* A process opens a file: it gets the lowest free descriptor.
PlayerOpen(i, f) ==
    /\ ~Handled
    /\ TotalOpen(procs) < MaxOpen
    /\ HasFree(procs[i].fds)
    /\ procs' = [procs EXCEPT ![i].fds[LowestFree(procs[i].fds)] = f]
    /\ last' = NoLast
    /\ UNCHANGED <<open_file, retry, closer, rt, loop>>

\* A process closes one of its descriptors.
PlayerClose(i, k) ==
    /\ ~Handled
    /\ procs[i].fds[k] # None
    /\ procs' = [procs EXCEPT ![i].fds[k] = None]
    /\ last' = NoLast
    /\ UNCHANGED <<open_file, retry, closer, rt, loop>>

\* A process exits: its entry leaves the table.
ProcExit(i) ==
    /\ ~Handled
    /\ procs' = [j \in 1..(Len(procs) - 1) |-> IF j < i THEN procs[j] ELSE procs[j + 1]]
    /\ last' = NoLast
    /\ UNCHANGED <<open_file, retry, closer, rt, loop>>

\* The notifier hands the next event to its handler.
ProcessEvent ==
    /\ ~Handled
    /\ \E ev \in Events : \E faults \in FaultChoices(ev) :
           \E show \in ShowChoices(ev, faults) :
               \E sent \in SentFor(ev, faults, show) :
                   /\ Dispatch(ev, faults, show, sent)
                   /\ UNCHANGED loop

Opens == \E i \in 1..Len(procs), f \in Files : PlayerOpen(i, f)

Closes == \E i \in 1..Len(procs), k \in FdNumbers : PlayerClose(i, k)

Exits == \E i \in 1..Len(procs) : ProcExit(i)

Next ==
    \/ ProcessEvent
    \/ Returned
    \/ Opens
    \/ Closes
    \/ Exits

Spec == Init /\ [][Next]_vars

(***************************************************************************)
(* observe(watch_dir, interval): the watch loop.                           *)
(***************************************************************************)
\* Most events the inotify queue holds at once.
MaxPending == 2

\* timeout = 1000: the wait of check_events is bounded, about one second.
PollTimeout == <<"1000">>

\* Lines 170-173: the timeout of the next wait.
next_timeout(r) ==
    IF r.last_state = TRACKER_NOVIDEO \/ r.last_updated THEN None ELSE PollTimeout

\* A slip that submits the default state instead of the last one.
resubmit_default(r) == <<Eff("update_show_if_needed", Default)>>

\* Line 176: what the timeout branch submits to the update collaborator.
resubmit(r) ==
    <<Eff("update_show_if_needed", <<r.last_state, r.last_show_tuple>>)>>

\* A slip that leaves the try block without running its finally clause.
on_exception_unwound(l) == [l EXCEPT !.pc = "raised", !.exc = TRUE]

\* An exception raised inside the try block (lines 163-176) runs the finally
\* clause before it propagates.
on_exception(l) == [l EXCEPT !.pc = "finally", !.exc = TRUE]

\* The entry of the process table that is the player while observe runs, and
\* the file it plays.
ThePlayer == Len(Pids)

Played == join(<<"/", "media">>, <<"a.mkv">>)

\* The watched tree is registered and can deliver events.
Watching == loop.pc \notin {"start", "add_watch", "failed"}

Tracked == <<open_file, procs, last, retry, closer>>

\* Lines 117-159: the watch manager, the handler and the notifier are
\* created; the event source may refuse, and the error leaves observe.
CreateNotifier ==
    /\ loop.pc = "start"
    /\ \/ loop' = [loop EXCEPT !.pc = "add_watch", !.notifier = "open"]
       \/ loop' = [loop EXCEPT !.pc = "failed", !.exc = TRUE]
    /\ UNCHANGED <<Tracked, rt>>

\* Lines 161-165: the watch is registered and the try block is entered with
\* timeout = None; a failed registration leaves observe from line 161.
AddWatch ==
    /\ loop.pc = "add_watch"
    /\ \/ loop' = [loop EXCEPT !.pc = "while", !.timeout = None]
       \/ loop' = [loop EXCEPT !.pc = "failed", !.exc = TRUE]
    /\ UNCHANGED <<Tracked, rt>>

\* Line 166: while self.active.
While ==
    /\ loop.pc = "while"
    /\ loop' = [loop EXCEPT !.pc = IF loop.active THEN "wait" ELSE "finally",
                            !.note = NoNote]
    /\ UNCHANGED <<Tracked, rt>>

\* Lines 167-168: check_events finds events queued and read_events reads them.
EventsReady ==
    /\ loop.pc = "wait"
    /\ loop.pending > 0
    /\ loop' = [loop EXCEPT !.pc = "process", !.batch = loop.pending,
                            !.pending = 0]
    /\ UNCHANGED <<Tracked, rt>>

\* Line 167: check_events returns False once a bounded wait has passed with
\* no event; with timeout = None it does not return before an event comes.
TimedOut ==
    /\ loop.pc = "wait"
    /\ loop.pending = 0
    /\ loop.timeout # None
    /\ loop' = [loop EXCEPT !.pc = "timeout"]
    /\ UNCHANGED <<Tracked, rt>>

\* Line 167: polling the event source fails.
PollFails ==
    /\ loop.pc = "wait"
    /\ loop' = on_exception(loop)
    /\ UNCHANGED <<Tracked, rt>>

\* Line 169: process_events hands the next event read to its handler.
ProcessEvents ==
    /\ loop.pc = "process"
    /\ loop.batch > 0
    /\ ~Handled
    /\ \E ev \in Events : \E show \in ShowChoices(ev, NoFaults(procs)) :
           \E sent \in IF Updates(ev, NoFaults(procs))
                       THEN SentChoices(rt, show) ELSE {rt.last_updated} :
               /\ Dispatch(ev, NoFaults(procs), show, sent)
               /\ loop' = [loop EXCEPT !.batch = @ - 1]

\* Lines 168-169: reading or dispatching an event fails before its handler
\* has changed anything.
DispatchFails ==
    /\ loop.pc = "process"
    /\ loop.batch > 0
    /\ ~Handled
    /\ loop' = on_exception([loop EXCEPT !.batch = 0])
    /\ UNCHANGED <<Tracked, rt>>

\* Line 169: the update collaborator fails in the last call of a handler,
\* after the handler has set the tracked open file.
HandlerFails ==
    /\ loop.pc = "process"
    /\ loop.batch > 0
    /\ ~Handled
    /\ \E ev \in Events : \E show \in ShowResults :
           /\ Updates(ev, NoFaults(procs))
           /\ open_file' = EventHandler(ev, open_file, procs, NoFaults(procs), show).open_file
    /\ loop' = on_exception([loop EXCEPT !.batch = 0])
    /\ retry' = FALSE
    /\ closer' = NoEvent
    /\ UNCHANGED <<procs, last, rt>>

\* Lines 170-173: every event read was dispatched, the timeout is chosen.
Recompute ==
    /\ loop.pc = "process"
    /\ loop.batch = 0
    /\ ~Handled
    /\ loop' = [loop EXCEPT !.pc = "while", !.timeout = next_timeout(rt)]
    /\ UNCHANGED <<Tracked, rt>>

\* Lines 175-176: no event came in time, the last state is sent again.
SendLastState ==
    /\ loop.pc = "timeout"
    /\ LET sends == resubmit(rt)
       IN \E sent \in SentChoices(rt, sends[1].args) :
              /\ rt' = update_show_if_needed(rt, sends[1].args, sent)
              /\ loop' = [loop EXCEPT !.pc = "while",
                              !.note = [effects |-> sends, pre_open |-> open_file,
                                        pre_rt |-> rt, fired |-> TRUE]]
    /\ UNCHANGED Tracked

\* Line 176: the update collaborator fails in the timeout branch.
SendFails ==
    /\ loop.pc = "timeout"
    /\ loop' = on_exception(loop)
    /\ UNCHANGED <<Tracked, rt>>

\* Lines 177-179: finally: notifier.stop(), then the exception, if any,
\* goes on to the caller.
Finally ==
    /\ loop.pc = "finally"
    /\ loop' = [loop EXCEPT !.pc = IF loop.exc THEN "raised" ELSE "done",
                            !.notifier = "stopped", !.stops = @ + 1]
    /\ UNCHANGED <<Tracked, rt>>

\* A filesystem event under the watched directory enters the queue.
Arrive ==
    /\ Watching
    /\ loop.pending < MaxPending
    /\ loop' = [loop EXCEPT !.pending = @ + 1]
    /\ UNCHANGED <<Tracked, rt>>

\* Another thread clears self.active.
Deactivate ==
    /\ loop.active
    /\ loop' = [loop EXCEPT !.active = FALSE]
    /\ UNCHANGED <<Tracked, rt>>

\* observe starts next to a shell and a player that hold no file yet.
InitObserve ==
    /\ Init
    /\ \A i \in 1..Len(procs) : is_player(procs[i].cmdline) <=> i = ThePlayer

\* While observe runs the player opens and closes one file of the library.
Plays == PlayerOpen(ThePlayer, Played)

Stops == \E k \in FdNumbers : PlayerClose(ThePlayer, k)

\* The steps of observe itself.
Observe ==
    \/ CreateNotifier
    \/ AddWatch
    \/ While
    \/ EventsReady
    \/ TimedOut
    \/ PollFails
    \/ ProcessEvents
    \/ Returned
    \/ DispatchFails
    \/ HandlerFails
    \/ Recompute
    \/ SendLastState
    \/ SendFails
    \/ Finally

NextLoop ==
    \/ Observe
    \/ Arrive
    \/ Deactivate
    \/ Plays
    \/ Stops

SpecLoop == InitObserve /\ [][NextLoop]_vars

\* The steps observe takes when nothing fails.
Runs ==
    \/ While
    \/ EventsReady
    \/ TimedOut
    \/ ProcessEvents
    \/ Returned
    \/ Recompute
    \/ SendLastState
    \/ Finally

\* The same where the thread of observe is scheduled: it takes a step
\* whenever it can take one.  No event has to arrive, nothing has to fail
\* and no other thread has to act.
SpecLoopFair == SpecLoop /\ WF_vars(Runs)

(***************************************************************************)
(* Vocabulary of the properties.                                           *)
(***************************************************************************)
Tracking(of) == Truthy(of[1])

LastKind == KindOf(last.ev)

LastIsFile == Handled /\ IN_ISDIR \notin last.ev.mask

OpenCandidate == LastIsFile /\ LastKind = "IN_OPEN"

CloseCandidate == LastIsFile /\ LastKind \in {"IN_CLOSE_NOWRITE", "IN_CLOSE_WRITE"}

LastPath == join(last.ev.path, last.ev.name)

LastOps == EffectOps(last.effects)

\* The signals the last handler emitted, as (signal, path, name).
LastSignals ==
    { last.effects[i].args : i \in { j \in 1..Len(last.effects) :
                                        last.effects[j].op = "_emit_signal" } }

Collaborators == {"_get_playing_show", "update_show_if_needed"}

\* The pattern occurs in the command line before its first null byte.
MatchesPattern(cmdline) ==
    \E i \in 1..Len(cmdline) :
        /\ cmdline[i] = "mpv"
        /\ \A j \in 1..i : cmdline[j] # NUL

\* Process i of the table has descriptor k resolving to the file.
Holds(table, i, k, file) == table[i].fds[k] = file

\* Some process matching the player pattern holds the file open.
PlayerHolds(table, file) ==
    \E i \in 1..Len(table), k \in FdNumbers :
        Holds(table, i, k, file) /\ MatchesPattern(table[i].cmdline)

\* The link from descriptor fd of process pid to the file exists.
LinkExists(table, pid, fd, file) ==
    \E i \in 1..Len(table), k \in FdNumbers :
        /\ Str(table[i].pid) = pid
        /\ Str(k) = fd
        /\ Holds(table, i, k, file)

(***************************************************************************)
(* C1.  The tracker holds at most one tracked open file, and an            *)
(* open-candidate processed while Tracking is dropped: the tracked record  *)
(* is unchanged, the process table is not scanned, no signal is emitted    *)
(* and neither collaborator is called.                                     *)
(***************************************************************************)
C1_OpenWhileTrackingDropped ==
    /\ \/ open_file = Idle
       \/ /\ open_file[1] \in Files
          /\ Truthy(open_file[2])
          /\ Truthy(open_file[3])
    /\ (OpenCandidate /\ Tracking(last.pre)) =>
           /\ open_file = last.pre
           /\ LastOps = {"_proc_open"}

\* An open of another file, held by a player, arrives while Tracking.
C1_Witness ==
    /\ OpenCandidate
    /\ Tracking(last.pre)
    /\ LastPath # last.pre[1]
    /\ PlayerHolds(procs, LastPath)

(***************************************************************************)
(* C2.  An open-candidate received in Idle for a path that no process      *)
(* matching the player pattern holds open leaves the tracker Idle, emits   *)
(* no signal and calls neither collaborator.                               *)
(***************************************************************************)
C2_OpenWithoutPlayerIgnored ==
    (OpenCandidate /\ ~Tracking(last.pre) /\ ~PlayerHolds(procs, LastPath)) =>
        /\ open_file = Idle
        /\ LastSignals = {}
        /\ LastOps \cap Collaborators = {}

\* The path is held only by a process whose arguments name the player.
C2_Witness ==
    /\ OpenCandidate
    /\ ~Tracking(last.pre)
    /\ ~PlayerHolds(procs, LastPath)
    /\ \E i \in 1..Len(procs), k \in FdNumbers :
           /\ Holds(procs, i, k, LastPath)
           /\ search(process_name, procs[i].cmdline)
    /\ last.faults = NoFaults(procs)

(***************************************************************************)
(* C3.  A close-candidate for which the tracked descriptor is still        *)
(* reported open leaves the tracker Tracking the same record and emits     *)
(* nothing; a later close-candidate for the same path, processed after the *)
(* player has closed that descriptor, moves the tracker to Idle.           *)
(***************************************************************************)
C3_CloseRetried ==
    (CloseCandidate /\ Tracking(last.pre) /\ LastPath = last.pre[1]) =>
        /\ islink(procs, last.pre[2], last.pre[3])
               => (open_file = last.pre /\ LastSignals = {})
        /\ (last.retried /\ ~LinkExists(procs, last.pre[2], last.pre[3], last.pre[1]))
               => open_file = Idle

(***************************************************************************)
(* C4.  A close-candidate processed while Tracking whose full path differs *)
(* from the tracked path is a no-op: the record is unchanged, the closure  *)
(* of the handle is not checked, no signal is emitted and the update       *)
(* collaborator is not called.                                             *)
(***************************************************************************)
C4_CloseOfOtherFileNoOp ==
    (CloseCandidate /\ Tracking(last.pre) /\ LastPath # last.pre[1]) =>
        /\ open_file = last.pre
        /\ "_closed_handle" \notin LastOps
        /\ LastSignals = {}
        /\ LastOps \cap Collaborators = {}

\* Another file is closed after the player has closed the tracked one.
C4_Witness ==
    /\ CloseCandidate
    /\ Tracking(last.pre)
    /\ LastPath # last.pre[1]
    /\ ~LinkExists(procs, last.pre[2], last.pre[3], last.pre[1])
    /\ closed_handle(last.pre[2], last.pre[3], procs)

(***************************************************************************)
(* C5.  Close handling is idempotent in Idle: a close-candidate processed  *)
(* while Idle, such as a repeat of the one that caused the transition to   *)
(* Idle, leaves the tracker Idle, emits no signal and calls neither        *)
(* collaborator.                                                           *)
(***************************************************************************)
C5_CloseInIdleNoOp ==
    (CloseCandidate /\ ~Tracking(last.pre)) =>
        /\ open_file = Idle
        /\ LastSignals = {}
        /\ LastOps \cap Collaborators = {}

\* The close-candidate that moved the tracker to Idle is delivered again.
C5_Witness ==
    /\ CloseCandidate
    /\ ~Tracking(last.pre)
    /\ last.closer = last.ev


(***************************************************************************)
(* Vocabulary of the properties about the scan of the process table.       *)
(***************************************************************************)
Scanned == OpenCandidate /\ "_is_being_played" \in LastOps

ProcName(i) == Str(procs[i].pid)

\* The pairs (process, descriptor) that hold the scanned file in a process
\* whose first command-line field matches the pattern, in scan order.
Satisfying ==
    { m \in (1..Len(procs)) \X FdNumbers :
          /\ Holds(procs, m[1], m[2], LastPath)
          /\ MatchesPattern(procs[m[1]].cmdline) }

\* The scan can read descriptor k of process i: the descriptor directory
\* and the command line can be read, and no link listed up to k vanished.
Readable(i, k) ==
    LET f == last.faults[i]
    IN \/ f.kind = "none"
       \/ /\ f.kind = "readlink"
          /\ (procs[i].fds[f.fd] = None \/ f.fd > k)

ReadableSatisfying == { m \in Satisfying : Readable(m[1], m[2]) }

\* The first pair of a set in scan order.
First(S) ==
    CHOOSE m \in S :
        \A n \in S : m[1] < n[1] \/ (m[1] = n[1] /\ m[2] <= n[2])

\* The scan returned the first pair of S, or NotFound when S is empty, and
\* went no further than the process of the pair it returned.
ReturnsFirstOf(S) ==
    IF S = {}
    THEN last.scan.pid = None /\ last.scan.fd = None
    ELSE LET m == First(S)
         IN /\ last.scan.pid = ProcName(m[1])
            /\ last.scan.fd = Str(m[2])
            /\ last.scan.visited = [j \in 1..m[1] |-> ProcName(j)]

\* The scan met an access failure on process i.
Failed(i) == scan_proc(procs[i], last.faults[i], LastPath).status = "oserror"

(***************************************************************************)
(* C6.  find_player(filename) returns (pid, fd) only when process pid has  *)
(* descriptor fd resolving to filename and the first null-delimited field  *)
(* of its command line matches the pattern; it returns the first such pair *)
(* in scan order without scanning further, and NotFound exactly when no    *)
(* process of the table satisfies both conditions.                         *)
(***************************************************************************)
C6_FindPlayerExact == Scanned => ReturnsFirstOf(Satisfying)

\* C6, amended: the same, counting only the pairs the scan can read (the
\* process's descriptor directory and command line are readable and no
\* descriptor link listed before the pair, or the pair's own, has vanished).
C6_FindPlayerReadable == Scanned => ReturnsFirstOf(ReadableSatisfying)

\* Two players hold the file and both can be read: the scan returns the
\* first one and does not go on to the second.
C6_Witness ==
    /\ Scanned
    /\ Cardinality({ m[1] : m \in ReadableSatisfying }) = 2
    /\ last.scan.pid = ProcName(1)
    /\ Len(last.scan.visited) = 1
    /\ Tracking(open_file)

(***************************************************************************)
(* C7.  An access failure on one process during the scan only skips that   *)
(* process: it is not propagated to the caller, every later process is     *)
(* still examined (until a match is returned), and a matching player later *)
(* in the table is still returned.                                         *)
(***************************************************************************)
C7_AccessFailureSkipsProcess ==
    Scanned =>
        /\ ~last.scan.raised
        /\ \A i \in 1..Len(procs) :
               (Failed(i) /\ \E v \in 1..Len(last.scan.visited) :
                                 last.scan.visited[v] = ProcName(i)) =>
                   \A j \in (i + 1)..Len(procs) :
                       /\ \/ \E v \in 1..Len(last.scan.visited) :
                                 last.scan.visited[v] = ProcName(j)
                          \/ \E h \in 1..(j - 1) : last.scan.pid = ProcName(h)
                       /\ (\E k \in FdNumbers : <<j, k>> \in ReadableSatisfying)
                              => Truthy(last.scan.pid)

\* The first process fails, the second one is the player and is returned.
C7_Witness ==
    /\ Scanned
    /\ Len(procs) = 2
    /\ Failed(1)
    /\ last.scan.pid = ProcName(2)
    /\ open_file = <<LastPath, ProcName(2), last.scan.fd>>

(***************************************************************************)
(* C8.  is_closed(pid, fd) is true iff the descriptor-to-file link that    *)
(* was recorded for the tracked file no longer exists for that process:    *)
(* the process exited, the descriptor was closed, or its number was closed *)
(* and reused for another file.                                            *)
(***************************************************************************)
C8_ClosedIffLinkGone ==
    (CloseCandidate /\ "_closed_handle" \in LastOps) =>
        (closed_handle(last.pre[2], last.pre[3], procs)
            <=> ~LinkExists(procs, last.pre[2], last.pre[3], last.pre[1]))

(***************************************************************************)
(* C9.  The classifier discards every event flagged as a directory (no     *)
(* signal, no state change, no handler call) and maps every other event by *)
(* kind: Open to open-candidate handling, CloseNoWrite and CloseWrite to   *)
(* the same close-candidate handling, Create and MovedTo to a detected     *)
(* signal, MovedFrom and Delete to a removed signal, each with the event's *)
(* (path, name).                                                           *)
(***************************************************************************)
C9_Classifier ==
    Handled =>
        LET args == <<last.ev.path, last.ev.name>>
        IN IF IN_ISDIR \in last.ev.mask
           THEN last.effects = <<>> /\ open_file = last.pre
           ELSE CASE LastKind = "IN_OPEN" ->
                         /\ last.effects[1] = Eff("_proc_open", args)
                         /\ "_proc_close" \notin LastOps
                  [] LastKind \in {"IN_CLOSE_NOWRITE", "IN_CLOSE_WRITE"} ->
                         /\ last.effects[1] = Eff("_proc_close", args)
                         /\ "_proc_open" \notin LastOps
                         /\ last.effects =
                                proc_close(last.ev.path, last.ev.name, last.pre,
                                           procs, last.faults, last.show).effects
                  [] LastKind \in {"IN_CREATE", "IN_MOVED_TO"} ->
                         last.effects =
                             <<Eff("_emit_signal", <<"detected">> \o args)>>
                  [] LastKind \in {"IN_MOVED_FROM", "IN_DELETE"} ->
                         last.effects =
                             <<Eff("_emit_signal", <<"removed">> \o args)>>

\* A directory is created under the watched directory.
C9_Witness ==
    /\ Handled
    /\ last.ev.mask = {"IN_CREATE", IN_ISDIR}
    /\ last.effects = <<>>

(***************************************************************************)
(* C10.  Library-add (Create, MovedTo) and library-remove (MovedFrom,      *)
(* Delete) events leave the tracked open file unchanged in every state,    *)
(* also when the event's path is the tracked path, and call neither the    *)
(* show-resolution nor the update collaborator.                            *)
(***************************************************************************)
C10_LibraryEventsKeepTracked ==
    (LastIsFile /\ LastKind \in {"IN_CREATE", "IN_MOVED_TO", "IN_MOVED_FROM", "IN_DELETE"})
        => /\ open_file = last.pre
           /\ LastOps \cap Collaborators = {}
           /\ LastOps = {"_emit_signal"}

\* The tracked file is deleted while the player still holds it open.
C10_Witness ==
    /\ LastIsFile
    /\ LastKind = "IN_DELETE"
    /\ Tracking(last.pre)
    /\ LastPath = last.pre[1]
    /\ LastSignals = {<<"removed", last.ev.path, last.ev.name>>}

(***************************************************************************)
(* Vocabulary of the watch loop properties.                                *)
(***************************************************************************)
LastPair(r) == <<r.last_state, r.last_show_tuple>>

\* observe has returned or has passed an exception on from its try block.
Left == loop.pc \in {"done", "raised"}

\* The timeout branch has just run and the loop is back at its test.
AfterTimeout == loop.pc = "while" /\ loop.note.fired

(***************************************************************************)
(* C11.  At every wait of the watch loop the timeout is indefinite when    *)
(* the last reported state is "no video" or an update was already sent for *)
(* the current state, and the short poll timeout otherwise; this also      *)
(* holds for the wait that follows a timeout branch whose re-submission    *)
(* marked the state as updated.                                            *)
(***************************************************************************)
C11_TimeoutAtEveryWait ==
    loop.pc = "wait" =>
        IF rt.last_state = TRACKER_NOVIDEO \/ rt.last_updated
        THEN loop.timeout = None
        ELSE loop.timeout = PollTimeout

(***************************************************************************)
(* C12.  On a timeout with no events the loop submits exactly the last     *)
(* known (state, show) pair to the update collaborator, once; it           *)
(* dispatches no event, emits no signal and leaves the tracked open file   *)
(* unchanged.                                                              *)
(***************************************************************************)
C12_TimeoutResubmitsLast ==
    AfterTimeout =>
        /\ loop.note.effects =
               <<Eff("update_show_if_needed", LastPair(loop.note.pre_rt))>>
        /\ LastPair(rt) = LastPair(loop.note.pre_rt)
        /\ open_file = loop.note.pre_open
        /\ ~Handled

\* The wait times out while a file is tracked and its show is playing.
C12_Witness ==
    /\ AfterTimeout
    /\ Tracking(open_file)
    /\ rt.last_state = <<"TRACKER_PLAYING">>
    /\ loop.note.pre_rt.last_show_tuple = <<"show">>

(***************************************************************************)
(* C13.  Every exit from the watch loop releases the watch exactly once,   *)
(* whether the active flag was cleared or an exception was raised in the   *)
(* loop body (polling, dispatch, a handler, the update collaborator), and  *)
(* no event is dispatched after the release.                               *)
(***************************************************************************)
C13_ReleasedOnceOnEveryExit ==
    /\ loop.stops <= 1
    /\ Left => (loop.stops = 1 /\ loop.notifier = "stopped")
    /\ loop.stops = 1 => (Left /\ ~Handled /\ loop.batch = 0)
    /\ (Watching /\ loop.stops = 0) => loop.notifier = "open"

\* An exception left the loop body while an event was still queued.
C13_Witness ==
    /\ loop.pc = "raised"
    /\ loop.stops = 1
    /\ loop.pending > 0
    /\ loop.active

(***************************************************************************)
(* C14.  Once the active flag is cleared the watch loop eventually exits   *)
(* and releases the watch, even if no further filesystem event arrives.    *)
(***************************************************************************)
C14_ExitsOnceInactive ==
    (Watching /\ ~loop.active) ~> (Left /\ loop.stops = 1)

(***************************************************************************)
(* C15.  A failure of the event source or of the watch registration leaves *)
(* observe as an error, and a notifier created before the failure is       *)
(* released before the error reaches the caller.                           *)
(***************************************************************************)
C15_FailureReleasesNotifier ==
    (loop.pc \in {"failed", "raised"} /\ loop.notifier # "none")
        => loop.notifier = "stopped"

(***************************************************************************)
(* Vocabulary of the handler sequences.                                    *)
(***************************************************************************)
\* The calls of the last handler from its k-th call on.
LastFrom(k) ==
    IF k > Len(last.effects) THEN <<>>
    ELSE SubSeq(last.effects, k, Len(last.effects))

\* The place of the first call of op in the last handler, 0 if there is none.
Place(op) ==
    IF op \in LastOps
    THEN CHOOSE i \in 1..Len(last.effects) :
             /\ last.effects[i].op = op
             /\ \A j \in 1..(i - 1) : last.effects[j].op # op
    ELSE 0

\* An open-candidate arrived in Idle and the scan found (pid, fd).
OpenValidated ==
    /\ OpenCandidate
    /\ last.pre = Idle
    /\ ~last.scan.raised
    /\ Truthy(last.scan.pid)

\* A close-candidate for the tracked path arrived and the link of the
\* recorded descriptor is gone.
CloseReported ==
    /\ CloseCandidate
    /\ Tracking(last.pre)
    /\ LastPath = last.pre[1]
    /\ ~islink(procs, last.pre[2], last.pre[3])

(***************************************************************************)
(* C16.  An open-candidate processed in Idle and validated as (pid, fd)    *)
(* makes the tracker, in this order: emit detected(path, name); set the    *)
(* tracked record to (joined path, pid, fd); ask the show resolution for   *)
(* the event's name; pass exactly the returned (state, show) pair to the   *)
(* update collaborator, once.                                              *)
(***************************************************************************)
C16_OpenSequence ==
    OpenValidated =>
        /\ LastFrom(3) =
               << Eff("_emit_signal", <<"detected", last.ev.path, last.ev.name>>),
                  Eff("open_file", <<LastPath, last.scan.pid, last.scan.fd>>),
                  Eff("_get_playing_show", <<last.ev.name>>),
                  Eff("update_show_if_needed", last.show) >>
        /\ open_file = <<LastPath, last.scan.pid, last.scan.fd>>
        /\ LastPair(rt) = last.show

\* A file the player holds is opened in Idle and resolves to a playing show.
C16_Witness ==
    /\ OpenValidated
    /\ last.show = <<<<"TRACKER_PLAYING">>, <<"show">>>>
    /\ rt.last_state = <<"TRACKER_PLAYING">>
    /\ open_file[1] = LastPath

(***************************************************************************)
(* C17.  A close-candidate for the tracked path whose descriptor is        *)
(* reported closed makes the tracker, in this order: emit detected (not    *)
(* removed) with the event's (path, name); clear the tracked record to     *)
(* Idle; ask the show resolution with no file name; pass the returned      *)
(* (state, show) pair to the update collaborator.                          *)
(***************************************************************************)
C17_CloseSequence ==
    CloseReported =>
        /\ LastFrom(Place("_closed_handle") + 1) =
               << Eff("_emit_signal", <<"detected", last.ev.path, last.ev.name>>),
                  Eff("open_file", Idle),
                  Eff("_get_playing_show", <<None>>),
                  Eff("update_show_if_needed", last.show) >>
        /\ Place("_closed_handle") > 0
        /\ open_file = Idle
        /\ LastPair(rt) = last.show

\* The player has closed the tracked file and its close is processed.
C17_Witness ==
    /\ CloseReported
    /\ LastKind = "IN_CLOSE_NOWRITE"
    /\ open_file = Idle
    /\ LastSignals = {<<"detected", last.ev.path, last.ev.name>>}

(***************************************************************************)
(* C18.  The grace delay of the close handling is performed only once the  *)
(* Idle check and the path comparison have passed, immediately before the  *)
(* closure of the handle is checked: a close-candidate in Idle or for      *)
(* another path returns without the delay.                                 *)
(***************************************************************************)
C18_DelayOnlyBeforeRecheck ==
    CloseCandidate =>
        /\ "sleep" \in LastOps <=> (Tracking(last.pre) /\ LastPath = last.pre[1])
        /\ "sleep" \in LastOps => Place("_closed_handle") = Place("sleep") + 1

(***************************************************************************)
(* C19.  Playlist advance: the player closes the tracked file A and opens  *)
(* B, maybe under the descriptor number A had.  The record of A does not   *)
(* survive the close of A by its holder, and once it is gone the open of B *)
(* is accepted, so that after Close(A) and Open(B) the tracker tracks B.   *)
(***************************************************************************)
C19_PlaylistAdvance ==
    /\ (/\ CloseCandidate
        /\ Tracking(last.pre)
        /\ LastPath = last.pre[1]
        /\ ~LinkExists(procs, last.pre[2], last.pre[3], last.pre[1]))
           => open_file = Idle
    /\ (/\ OpenCandidate
        /\ last.pre = Idle
        /\ last.faults = NoFaults(procs)
        /\ PlayerHolds(procs, LastPath))
           => open_file[1] = LastPath

====
